---- MODULE Spec2Model ----
(***************************************************************************)
(* The Silent-Killer backend.  The event store: InMemoryStore              *)
(* (backend/app/core/store.py) and SqliteStore                             *)
(* (backend/app/core/sql_store.py), driven by the same calls.  The audit   *)
(* log (core/actions.py and the actions table), execute_action             *)
(* (core/executor.py), training and the weights file (core/learning.py),   *)
(* rank_suggestions (core/ranker.py), run_rules_and_score and the two      *)
(* detectors (core/rules.py), normalize_event (core/normalizer.py), the    *)
(* ingest endpoint (api/ingest.py) and the prune worker of main.lifespan,  *)
(* each with a specification of its own.                                   *)
(*                                                                         *)
(* A datetime is a number of half-second ticks (naive UTC, as every        *)
(* collector and datetime.utcnow() produce).  An event is the dict         *)
(* normalize_event returns, reduced to event_id and timestamp; event_id    *)
(* is a string or NoneId.  Retention is counted in whole units of two      *)
(* ticks (the code's days).                                                *)
(***************************************************************************)
EXTENDS Integers, Sequences, FiniteSets, TLC

MaxEvents == 2          \* add_event calls per behaviour
MaxActions == 2         \* add_action calls per behaviour
MaxTick == 20           \* latest event/action timestamp, in ticks
RetentionDays == 1      \* retention_days the stores are constructed with

Users == {"u1", "u2"}
EventIds == {"e1"}
NoneId == "None"
UuidPool == <<"uuid-1", "uuid-2", "uuid-3", "uuid-4", "uuid-5", "uuid-6">>
Ticks == 18..MaxTick
Threads == {"t1", "t2"}

None == [some |-> FALSE, val |-> 0]
Some(t) == [some |-> TRUE, val |-> t]

\* a suggestion or an action record without a title
NoTitle == "None"
\* an action record without details, a decision without a reason
NoReason == "None"
\* WEIGHTS_PATH does not exist
NoFile == [exists |-> FALSE]
\* train_and_persist has not run
NotTrained == [ran |-> FALSE]
\* user_id None
\* the application before its lifespan is entered
NotStarted == [task |-> "none"]
NoUser == "None"

VARIABLES
  store,      \* InMemoryStore._store: user_id -> list of events
  events,     \* SqliteStore table events, rows in rowid order
  actions,    \* SqliteStore table actions, rows in id order
  actionSeq,  \* AUTOINCREMENT counter of table actions
  uuids,      \* number of uuid4() values drawn so far
  now,        \* latest reading of datetime.utcnow()
  evLeft,     \* add_event calls still allowed
  actLeft,    \* add_action calls still allowed
  last,       \* the latest call, its arguments and what it returned
  subs,       \* history: add_event calls so far per (user, event_id)
  first,      \* history: timestamp of the first submission per (user, event_id)
  backend,    \* SILENT_KILLER_STORE, for the threaded runs
  pc,         \* threaded runs: position of each thread inside add_event
  call,       \* threaded runs: arguments of each thread's add_event
  actionStore,  \* ActionStore._store: user_id -> list of action records
  weightsFile,  \* the file at WEIGHTS_PATH
  trained,      \* history: what the latest train_and_persist read and returned
  lifespan      \* main.lifespan: the prune worker task, stop_event and the shutdown

vars == <<store, events, actions, actionSeq, uuids, now, evLeft, actLeft,
          last, subs, first, backend, pc, call, actionStore, weightsFile,
          trained, lifespan>>

----------------------------------------------------------------------------
(* datetime.isoformat(), datetime.fromisoformat() and SQLite's TEXT order.   *)
(* A string is a sequence of character codes: "0".."9" are 48..57, "." is    *)
(* 46.  Of YYYY-MM-DDTHH:MM:SS[.ffffff] the model keeps the two-digit        *)
(* seconds field and, when the microsecond is not 0, "." and the first       *)
(* fraction digit.                                                           *)

Isoformat(t) ==
  LET sec == t \div 2
  IN  <<48 + (sec \div 10), 48 + (sec % 10)>>
        \o (IF t % 2 = 0 THEN <<>> ELSE <<46, 53>>)

FromIsoformat(s) ==
  2 * ((s[1] - 48) * 10 + (s[2] - 48))
    + (IF Len(s) > 2 THEN (s[4] - 48) \div 5 ELSE 0)

RECURSIVE TextLess(_, _)
TextLess(a, b) ==
  IF b = <<>> THEN FALSE
  ELSE IF a = <<>> THEN TRUE
  ELSE IF Head(a) # Head(b) THEN Head(a) < Head(b)
  ELSE TextLess(Tail(a), Tail(b))

Timedelta(days) == 2 * days

----------------------------------------------------------------------------
(* InMemoryStore *)

Event == [event_id : EventIds \cup {NoneId}, timestamp : Ticks]

\* add_event, lines 24-26: ensure event_id exists (n uuid4 values drawn so far)
MemEnsureId(e, n) ==
  IF e.event_id = NoneId THEN [e EXCEPT !.event_id = UuidPool[n + 1]] ELSE e

\* add_event, lines 29-32: the first critical section
MemIsStored(st, u, e) ==
  e.event_id \in {st[u][i].event_id : i \in 1..Len(st[u])}

\* add_event, lines 33-34: the second critical section
MemAppend(st, u, e) == [st EXCEPT ![u] = Append(@, e)]

\* add_event called by one thread at a time, after MemEnsureId
MemAddEvent(st, u, e) ==
  IF MemIsStored(st, u, e) THEN st ELSE MemAppend(st, u, e)

MemGetEventsStrict(st, u, since) ==
  IF since.some
  THEN SelectSeq(st[u], LAMBDA e : e.timestamp > since.val)
  ELSE st[u]

MemGetEvents(st, u, since) ==
  IF since.some
  THEN SelectSeq(st[u], LAMBDA e : e.timestamp >= since.val)
  ELSE st[u]

MemPrune(st, cutoff) ==
  [u \in Users |-> SelectSeq(st[u], LAMBDA e : e.timestamp >= cutoff)]

----------------------------------------------------------------------------
(* SqliteStore *)

\* INSERT INTO events: event_id is the table's PRIMARY KEY, a TEXT column, so
\* a second row with a stored event_id raises IntegrityError (the call
\* returns) and NULL keys never collide
SqlAddEvent(rows, u, e) ==
  IF e.event_id # NoneId /\ \E i \in 1..Len(rows) : rows[i].event_id = e.event_id
  THEN rows
  ELSE Append(rows, [event_id |-> e.event_id, user_id |-> u,
                     timestamp |-> Isoformat(e.timestamp)])

\* a WHERE clause without the user_id test
SqlWhereAnyUser(rows, u, since) ==
  SelectSeq(rows, LAMBDA r : since.some => ~TextLess(r.timestamp, Isoformat(since.val)))

\* WHERE user_id = ? [AND timestamp >= ?]
SqlWhere(rows, u, since) ==
  SelectSeq(rows, LAMBDA r : /\ r.user_id = u
                             /\ since.some => ~TextLess(r.timestamp, Isoformat(since.val)))

\* ORDER BY timestamp: every order of the rows that is ascending in the TEXT
\* column; SQL leaves the order of rows with equal keys open
RECURSIVE OrderByTimestamp(_, _)
OrderByTimestamp(rows, left) ==
  IF left = {} THEN {<<>>}
  ELSE LET least == {i \in left : \A j \in left : ~TextLess(rows[j].timestamp, rows[i].timestamp)}
       IN  UNION {{<<rows[i]>> \o rest : rest \in OrderByTimestamp(rows, left \ {i})} : i \in least}

\* get_events, lines 85-97: one result row to an event dict
SqlRowToEvent(r) == [event_id |-> r.event_id, timestamp |-> FromIsoformat(r.timestamp)]

\* the lists get_events may return
SqlGetEvents(rows, u, since) ==
  LET hit == SqlWhere(rows, u, since)
  IN  {[i \in 1..Len(o) |-> SqlRowToEvent(o[i])] : o \in OrderByTimestamp(hit, 1..Len(hit))}

SqlPruneEventsInclusive(rows, cutoff) ==
  SelectSeq(rows, LAMBDA r : TextLess(cutoff, r.timestamp))

\* DELETE FROM events WHERE timestamp < ?
SqlPruneEvents(rows, cutoff) ==
  SelectSeq(rows, LAMBDA r : ~TextLess(r.timestamp, cutoff))

SqlPruneActionsSkipped(rows, cutoff) == rows

\* a batched delete, one stale row per call
SqlPruneActionsBatch(rows, cutoff) ==
  LET stale == {i \in 1..Len(rows) : TextLess(rows[i].timestamp, cutoff)}
  IN  IF stale = {} THEN rows
      ELSE LET k == CHOOSE i \in stale : \A j \in stale : i <= j
           IN  SubSeq(rows, 1, k - 1) \o SubSeq(rows, k + 1, Len(rows))

\* DELETE FROM actions WHERE timestamp < ?
SqlPruneActions(rows, cutoff) ==
  SelectSeq(rows, LAMBDA r : ~TextLess(r.timestamp, cutoff))

\* add_action: INSERT INTO actions, id from the AUTOINCREMENT counter
SqlAddAction(rows, seq, u, a) ==
  Append(rows, [id |-> seq + 1, user_id |-> u, suggestion_id |-> a.suggestion_id,
                suggestion_title |-> a.suggestion_title,
                action |-> a.action, details |-> a.details,
                timestamp |-> Isoformat(a.timestamp)])

\* get_actions: WHERE user_id = ? ORDER BY id
SqlGetActions(rows, u) ==
  LET hit == SelectSeq(rows, LAMBDA r : r.user_id = u)
  IN  [i \in 1..Len(hit) |->
         [id |-> hit[i].id, user_id |-> hit[i].user_id,
          suggestion_id |-> hit[i].suggestion_id,
          suggestion_title |-> hit[i].suggestion_title, action |-> hit[i].action,
          details |-> hit[i].details,
          timestamp |-> FromIsoformat(hit[i].timestamp)]]

----------------------------------------------------------------------------
(* ActionStore of core/actions.py: the in-memory audit log.                *)

\* a variant keeping one record per suggestion, the latest
MemAddActionLatest(st, u, a) ==
  [st EXCEPT ![u] = Append(SelectSeq(@, LAMBDA r : r.suggestion_id # a.suggestion_id), a)]

\* add_action: self._store.setdefault(user_id, []).append(action)
MemAddAction(st, u, a) == [st EXCEPT ![u] = Append(@, a)]

\* get_actions: list(self._store.get(user_id, []))
MemGetActions(st, u) == st[u]

----------------------------------------------------------------------------
(* Calls made one at a time, each applied to both backends. *)

Sinces == {None} \cup {Some(t) : t \in Ticks}

\* readings of datetime.utcnow(): the cutoff runs over the stored timestamps
Clock == {t + Timedelta(RetentionDays) : t \in Ticks}

NoSubs == [u \in Users |-> [x \in EventIds \cup {NoneId} |-> 0]]

Init ==
  /\ store = [u \in Users |-> <<>>]
  /\ events = <<>>
  /\ actions = <<>>
  /\ actionSeq = 0
  /\ uuids = 0
  /\ now = 18 + Timedelta(RetentionDays)
  /\ evLeft = MaxEvents
  /\ actLeft = 0
  /\ last = [op |-> "init"]
  /\ subs = NoSubs
  /\ first = NoSubs
  /\ backend = "both"
  /\ pc = [t \in Threads |-> "idle"]
  /\ call = [t \in Threads |-> [user |-> "u1", event |-> [event_id |-> NoneId, timestamp |-> 18]]]
  /\ actionStore = [u \in Users |-> <<>>]
  /\ weightsFile = NoFile
  /\ trained = NotTrained
  /\ lifespan = NotStarted

AddEvent(u, e) ==
  /\ evLeft > 0
  /\ evLeft' = evLeft - 1
  /\ store' = MemAddEvent(store, u, MemEnsureId(e, uuids))
  /\ uuids' = IF e.event_id = NoneId THEN uuids + 1 ELSE uuids
  /\ events' = SqlAddEvent(events, u, e)
  /\ last' = [op |-> "add_event", user |-> u, event |-> e]
  /\ subs' = [subs EXCEPT ![u][e.event_id] = @ + 1]
  /\ first' = IF subs[u][e.event_id] = 0
              THEN [first EXCEPT ![u][e.event_id] = e.timestamp]
              ELSE first
  /\ UNCHANGED <<lifespan, actionStore, weightsFile, trained, actions, actionSeq, now, actLeft, backend, pc, call>>

GetEvents(u, since) ==
  /\ \E r \in SqlGetEvents(events, u, since) :
       last' = [op |-> "get_events", user |-> u, since |-> since,
                mem |-> MemGetEvents(store, u, since), sql |-> r]
  /\ UNCHANGED <<lifespan, actionStore, weightsFile, trained, store, events, actions, actionSeq, uuids, now, evLeft, actLeft,
                 subs, first, backend, pc, call>>

\* prune() on both backends, the clock reading t
Prune(t) ==
  LET cutoff == t - Timedelta(RetentionDays)
      again == last.op = "prune" /\ t = now
  IN  /\ now' = t
      /\ store' = MemPrune(store, cutoff)
      /\ events' = SqlPruneEvents(events, Isoformat(cutoff))
      /\ actions' = SqlPruneActions(actions, Isoformat(cutoff))
      /\ last' = [op |-> "prune",
                  nth |-> IF again THEN 2 ELSE 1,
                  removed |-> IF again THEN last.removed
                              ELSE <<store', events', actions'>> # <<store, events, actions>>,
                  before |-> [store |-> store, events |-> events, actions |-> actions]]
      /\ UNCHANGED <<lifespan, actionStore, weightsFile, trained, actionSeq, uuids, evLeft, actLeft, subs, first, backend, pc, call>>

Next ==
  \/ \E u \in Users, e \in Event : AddEvent(u, e)
  \/ \E u \in Users, since \in Sinces : GetEvents(u, since)
  \/ \E t \in Clock : t >= now /\ Prune(t)

Spec == Init /\ [][Next]_vars

----------------------------------------------------------------------------
(* Ingestion alone: add_event and get_events, never prune. *)

InitIngest ==
  /\ store = [u \in Users |-> <<>>]
  /\ events = <<>>
  /\ actions = <<>>
  /\ actionSeq = 0
  /\ uuids = 0
  /\ now = 18 + Timedelta(RetentionDays)
  /\ evLeft = MaxEvents + 1
  /\ actLeft = 0
  /\ last = [op |-> "init"]
  /\ subs = NoSubs
  /\ first = NoSubs
  /\ backend = "both"
  /\ pc = [t \in Threads |-> "idle"]
  /\ call = [t \in Threads |-> [user |-> "u1", event |-> [event_id |-> NoneId, timestamp |-> 18]]]
  /\ actionStore = [u \in Users |-> <<>>]
  /\ weightsFile = NoFile
  /\ trained = NotTrained
  /\ lifespan = NotStarted

NextIngest ==
  \/ \E u \in Users, e \in Event : AddEvent(u, e)
  \/ \E u \in Users, since \in Sinces : GetEvents(u, since)

SpecIngest == InitIngest /\ [][NextIngest]_vars

----------------------------------------------------------------------------
(* The audit table of the SQLite backend: add_action, get_actions, prune.  *)

Action == [suggestion_id : {"s1"}, suggestion_title : {NoTitle},
           action : {"accept"}, details : {NoReason}, timestamp : Ticks]

InitAudit ==
  /\ store = [u \in Users |-> <<>>]
  /\ events = <<>>
  /\ actions = <<>>
  /\ actionSeq = 0
  /\ uuids = 0
  /\ now = 18 + Timedelta(RetentionDays)
  /\ evLeft = 1
  /\ actLeft = MaxActions
  /\ last = [op |-> "init"]
  /\ subs = NoSubs
  /\ first = NoSubs
  /\ backend = "both"
  /\ pc = [t \in Threads |-> "idle"]
  /\ call = [t \in Threads |-> [user |-> "u1", event |-> [event_id |-> NoneId, timestamp |-> 18]]]
  /\ actionStore = [u \in Users |-> <<>>]
  /\ weightsFile = NoFile
  /\ trained = NotTrained
  /\ lifespan = NotStarted

AddAction(u, a) ==
  /\ actLeft > 0
  /\ actLeft' = actLeft - 1
  /\ actions' = SqlAddAction(actions, actionSeq, u, a)
  /\ actionSeq' = actionSeq + 1
  /\ actionStore' = MemAddAction(actionStore, u, a)
  /\ last' = [op |-> "add_action", user |-> u, action |-> a,
              before |-> [sql |-> SqlGetActions(actions, u),
                          mem |-> MemGetActions(actionStore, u)]]
  /\ UNCHANGED <<lifespan, weightsFile, trained, store, events, uuids, now, evLeft, subs, first, backend, pc, call>>

GetActions(u) ==
  /\ last' = [op |-> "get_actions", user |-> u, sql |-> SqlGetActions(actions, u),
              mem |-> MemGetActions(actionStore, u)]
  /\ UNCHANGED <<lifespan, actionStore, weightsFile, trained, store, events, actions, actionSeq, uuids, now, evLeft, actLeft,
                 subs, first, backend, pc, call>>

NextAudit ==
  \/ \E u \in Users, a \in Action : AddAction(u, a)
  \/ \E u \in Users : GetActions(u)
  \/ \E u \in Users, e \in Event : AddEvent(u, e)
  \/ \E t \in Clock : t >= now /\ Prune(t)

SpecAudit == InitAudit /\ [][NextAudit]_vars

----------------------------------------------------------------------------
(* add_event called from several threads on one store instance.  A block   *)
(* under "with self._lock" is one step; what lies between two blocks of    *)
(* one call can interleave with the steps of the other threads.            *)

InitConc ==
  /\ store = [u \in Users |-> <<>>]
  /\ events = <<>>
  /\ actions = <<>>
  /\ actionSeq = 0
  /\ uuids = 0
  /\ now = 18 + Timedelta(RetentionDays)
  /\ evLeft = MaxEvents
  /\ actLeft = 0
  /\ last = [op |-> "init"]
  /\ subs = NoSubs
  /\ first = NoSubs
  /\ backend \in {"memory", "sqlite"}
  /\ pc = [t \in Threads |-> "idle"]
  /\ call = [t \in Threads |-> [user |-> "u1", event |-> [event_id |-> NoneId, timestamp |-> 18]]]
  /\ actionStore = [u \in Users |-> <<>>]
  /\ weightsFile = NoFile
  /\ trained = NotTrained
  /\ lifespan = NotStarted

\* thread t enters add_event(u, e): store.py lines 18-26, sql_store.py lines 56-61
CallAddEvent(t, u, e) ==
  /\ pc[t] \in {"idle", "done"}
  /\ evLeft > 0
  /\ evLeft' = evLeft - 1
  /\ IF backend = "memory"
     THEN /\ call' = [call EXCEPT ![t] = [user |-> u, event |-> MemEnsureId(e, uuids)]]
          /\ uuids' = IF e.event_id = NoneId THEN uuids + 1 ELSE uuids
          /\ pc' = [pc EXCEPT ![t] = "check"]
     ELSE /\ call' = [call EXCEPT ![t] = [user |-> u, event |-> e]]
          /\ uuids' = uuids
          /\ pc' = [pc EXCEPT ![t] = "insert"]
  /\ subs' = [subs EXCEPT ![u][e.event_id] = @ + 1]
  /\ UNCHANGED <<lifespan, actionStore, weightsFile, trained, store, events, actions, actionSeq, now, actLeft, last, first, backend>>

\* InMemoryStore.add_event, lines 29-32
MemCheckStep(t) ==
  /\ pc[t] = "check"
  /\ pc' = [pc EXCEPT ![t] = IF MemIsStored(store, call[t].user, call[t].event)
                              THEN "done" ELSE "append"]
  /\ UNCHANGED <<lifespan, actionStore, weightsFile, trained, store, events, actions, actionSeq, uuids, now, evLeft, actLeft,
                 last, subs, first, backend, call>>

\* InMemoryStore.add_event, lines 33-34
MemAppendStep(t) ==
  /\ pc[t] = "append"
  /\ store' = MemAppend(store, call[t].user, call[t].event)
  /\ pc' = [pc EXCEPT ![t] = "done"]
  /\ UNCHANGED <<lifespan, actionStore, weightsFile, trained, events, actions, actionSeq, uuids, now, evLeft, actLeft,
                 last, subs, first, backend, call>>

\* SqliteStore.add_event, lines 62-73
SqlInsertStep(t) ==
  /\ pc[t] = "insert"
  /\ events' = SqlAddEvent(events, call[t].user, call[t].event)
  /\ pc' = [pc EXCEPT ![t] = "done"]
  /\ UNCHANGED <<lifespan, actionStore, weightsFile, trained, store, actions, actionSeq, uuids, now, evLeft, actLeft,
                 last, subs, first, backend, call>>

NextConc ==
  \/ \E t \in Threads, u \in Users, e \in Event : CallAddEvent(t, u, e)
  \/ \E t \in Threads : MemCheckStep(t)
  \/ \E t \in Threads : MemAppendStep(t)
  \/ \E t \in Threads : SqlInsertStep(t)

SpecConc == InitConc /\ [][NextConc]_vars

----------------------------------------------------------------------------
(* Properties of the event store. *)

Occ(seq, e) == Cardinality({i \in 1..Len(seq) : seq[i] = e})
Range(seq) == {seq[i] : i \in 1..Len(seq)}
WithId(seq, x) == {i \in 1..Len(seq) : seq[i].event_id = x}
SameBag(a, b) == \A e \in Range(a) \cup Range(b) : Occ(a, e) = Occ(b, e)
Cutoff == now - Timedelta(RetentionDays)

\* the rows of table events of user u as events, in rowid order
SqlStored(rows, u) ==
  LET mine == SelectSeq(rows, LAMBDA r : r.user_id = u)
  IN  [i \in 1..Len(mine) |-> SqlRowToEvent(mine[i])]

\* C1: once add_event has been called two or more times for (u, x), in a run
\* of add_event calls, get_events(u) holds exactly one event with event_id x
\* on either backend, and it is the event of the first call.
C1_IdempotentIngestion ==
  \A u \in Users, x \in EventIds :
    subs[u][x] >= 2 =>
      /\ LET r == MemGetEvents(store, u, None)
         IN  /\ Cardinality(WithId(r, x)) = 1
             /\ \A i \in WithId(r, x) : r[i].timestamp = first[u][x]
      /\ \A r \in SqlGetEvents(events, u, None) :
           /\ Cardinality(WithId(r, x)) = 1
           /\ \A i \in WithId(r, x) : r[i].timestamp = first[u][x]

\* the events stored for user u in the backend the threads call
ConcStored(u) == IF backend = "memory" THEN store[u] ELSE SqlStored(events, u)

\* C2: once every add_event call made by the threads has returned, a user's
\* stored events hold exactly one event per submitted event_id (for an id no
\* other user submitted), and one event per call made without an event_id.
C2_ConcurrentAddEvent ==
  (\A t \in Threads : pc[t] \in {"idle", "done"}) =>
    \A u \in Users :
      /\ \A x \in EventIds :
           (subs[u][x] >= 1 /\ \A v \in Users \ {u} : subs[v][x] = 0)
             => Cardinality(WithId(ConcStored(u), x)) = 1
      /\ Cardinality({i \in 1..Len(ConcStored(u)) : ConcStored(u)[i].event_id \notin EventIds})
           = subs[u][NoneId]

\* C3: when add_event(b, e) returns and another user already holds an event
\* with e's event_id, get_events(b) holds an event with that id too, on
\* either backend.
C3_DedupScopedToUser ==
  (last.op = "add_event" /\ last.event.event_id # NoneId) =>
    LET b == last.user
        x == last.event.event_id
    IN  /\ (\E a \in Users \ {b} : WithId(MemGetEvents(store, a, None), x) # {})
             => WithId(MemGetEvents(store, b, None), x) # {}
        /\ (\E a \in Users \ {b} : \E r \in SqlGetEvents(events, a, None) : WithId(r, x) # {})
             => \A r \in SqlGetEvents(events, b, None) : WithId(r, x) # {}

\* C4: after prune() at clock reading now, get_events returns, for every
\* user, exactly the events stored before the call whose timestamp is at or
\* after now - R, unchanged; none older is left.
C4_RetentionCorrect ==
  last.op = "prune" =>
    \A u \in Users :
      /\ MemGetEvents(store, u, None)
           = SelectSeq(last.before.store[u], LAMBDA e : e.timestamp >= Cutoff)
      /\ \A r \in SqlGetEvents(events, u, None) :
           SameBag(r, SelectSeq(SqlStored(last.before.events, u),
                                LAMBDA e : e.timestamp >= Cutoff))

\* C4 witness: a prune that removed an event and kept one stamped exactly
\* now - R, on both backends
C4_Witness ==
  /\ last.op = "prune"
  /\ \E u \in Users :
       /\ \E i \in 1..Len(last.before.store[u]) : last.before.store[u][i].timestamp < Cutoff
       /\ \E i \in 1..Len(SqlStored(last.before.events, u)) :
            SqlStored(last.before.events, u)[i].timestamp < Cutoff
  /\ \E u \in Users :
       /\ \E i \in 1..Len(store[u]) : store[u][i].timestamp = Cutoff
       /\ \E i \in 1..Len(SqlStored(events, u)) : SqlStored(events, u)[i].timestamp = Cutoff

\* C5: after prune() on the SQLite backend, get_actions returns, for every
\* user, exactly the action records stored before the call whose timestamp
\* is at or after now - R, in their order.
C5_PruneAppliesToActions ==
  last.op = "prune" =>
    \A u \in Users :
      SqlGetActions(actions, u)
        = SelectSeq(SqlGetActions(last.before.actions, u),
                    LAMBDA a : a.timestamp >= Cutoff)

\* C5 witness: a prune that removed one action record of a user and kept
\* another
C5_Witness ==
  /\ last.op = "prune"
  /\ \E u \in Users :
       /\ SqlGetActions(actions, u) # <<>>
       /\ Len(SqlGetActions(actions, u)) < Len(SqlGetActions(last.before.actions, u))

\* C6: a prune() that directly follows a prune() at the same clock reading
\* changes no stored event and no action record.
C6_PruneIdempotent ==
  (last.op = "prune" /\ last.nth = 2) =>
    /\ store = last.before.store
    /\ events = last.before.events
    /\ actions = last.before.actions

\* C6 witness: the second of two prunes in a row, the first of which removed
\* records and left others
C6_Witness ==
  /\ last.op = "prune"
  /\ last.nth = 2
  /\ last.removed
  /\ actions # <<>>
  /\ events # <<>>

IsSorted(seq) == \A i, j \in 1..Len(seq) : i < j => seq[i].timestamp <= seq[j].timestamp

\* C7: the list get_events returns is in non-decreasing timestamp order, on
\* either backend.
C7_OrderedByTimestamp ==
  last.op = "get_events" => IsSorted(last.mem) /\ IsSorted(last.sql)

\* C8: get_events(u, since) returns exactly u's stored events with
\* timestamp >= since, and all of u's stored events without since, on
\* either backend.
C8_SinceFilter ==
  last.op = "get_events" =>
    LET wanted(e) == last.since.some => e.timestamp >= last.since.val
    IN  /\ SameBag(last.mem, SelectSeq(store[last.user], wanted))
        /\ SameBag(last.sql, SelectSeq(SqlStored(events, last.user), wanted))

\* C8 witness: a get_events with since that returned one of the user's
\* events, stamped exactly since, and left another out, on both backends
C8_Witness ==
  /\ last.op = "get_events"
  /\ last.since.some
  /\ \E i \in 1..Len(last.mem) : last.mem[i].timestamp = last.since.val
  /\ \E i \in 1..Len(last.sql) : last.sql[i].timestamp = last.since.val
  /\ Len(last.mem) < Len(store[last.user])
  /\ Len(last.sql) < Len(SqlStored(events, last.user))

\* C9: after k add_event calls for user u with no event_id, get_events(u)
\* holds k events under assigned ids: none of them missing, all distinct, on
\* either backend.
C9_AssignsMissingId ==
  \A u \in Users :
    LET assigned(r) == {r[i].event_id : i \in {j \in 1..Len(r) : r[j].event_id \notin EventIds}}
        ok(r) == /\ NoneId \notin assigned(r)
                 /\ Cardinality(assigned(r)) = subs[u][NoneId]
    IN  /\ ok(MemGetEvents(store, u, None))
        /\ \A r \in SqlGetEvents(events, u, None) : ok(r)

\* C10: every get_events call returns the same events in the same order on
\* the in-memory backend and on the SQLite backend.
C10_BackendsAgree ==
  last.op = "get_events" => last.mem = last.sql

\* C11: in a run of add_event calls without prune, every event submitted
\* under an event_id its user had not stored yet is returned by get_events
\* for that user with its fields as submitted, on either backend, and
\* get_events returns no event that was not submitted for that user.
C11_NoLostWrites ==
  \A u \in Users :
    LET sent(x) == [event_id |-> x, timestamp |-> first[u][x]]
        known(r) == \A i \in 1..Len(r) :
                      r[i].event_id \in EventIds
                        => subs[u][r[i].event_id] >= 1 /\ r[i] = sent(r[i].event_id)
        anon(r) == Cardinality({i \in 1..Len(r) : r[i].event_id \notin EventIds})
    IN  /\ \A x \in EventIds :
             subs[u][x] >= 1 =>
               /\ sent(x) \in Range(MemGetEvents(store, u, None))
               /\ \A r \in SqlGetEvents(events, u, None) : sent(x) \in Range(r)
        /\ known(MemGetEvents(store, u, None)) /\ anon(MemGetEvents(store, u, None)) <= subs[u][NoneId]
        /\ \A r \in SqlGetEvents(events, u, None) : known(r) /\ anon(r) <= subs[u][NoneId]

\* the fields of an action record that the caller supplied
Supplied(r) ==
  [suggestion_id |-> r.suggestion_id, suggestion_title |-> r.suggestion_title,
   action |-> r.action, details |-> r.details, timestamp |-> r.timestamp]

\* C12: after add_action(u, a), get_actions(u) is the list it returned
\* before the call, unchanged and in the same order, followed by a, on the
\* in-memory log and on the SQLite log.
C12_AppendOnly ==
  last.op = "add_action" =>
    LET mem == MemGetActions(actionStore, last.user)
        sql == SqlGetActions(actions, last.user)
    IN  /\ mem = Append(last.before.mem, last.action)
        /\ Len(sql) = Len(last.before.sql) + 1
        /\ SubSeq(sql, 1, Len(last.before.sql)) = last.before.sql
        /\ Supplied(sql[Len(sql)]) = last.action

\* add_action for a suggestion that already has a record in both logs
C12_Witness ==
  /\ last.op = "add_action"
  /\ \E i \in 1..Len(last.before.mem) :
       last.before.mem[i].suggestion_id = last.action.suggestion_id
  /\ \E i \in 1..Len(last.before.sql) :
       last.before.sql[i].suggestion_id = last.action.suggestion_id
  /\ Len(MemGetActions(actionStore, last.user)) = 2
  /\ Len(SqlGetActions(actions, last.user)) = 2

----------------------------------------------------------------------------
(* execute_action of core/executor.py.  A confidence is a number of        *)
(* hundredths; the audit log is the store's table when the store is a      *)
(* SqliteStore and the ActionStore singleton otherwise.                    *)

AUTO_EXECUTE_CONFIDENCE == 90

Confidences == {0, AUTO_EXECUTE_CONFIDENCE - 1, AUTO_EXECUTE_CONFIDENCE, 100}
Modes == {"auto", "manual", "review"}
Suggestion == [id : {"s1"}, title : {"T1"}, confidence : Confidences]

ReasonBelow == "confidence below auto-exec threshold"
ReasonManual == "manual mode: requires user approval"

\* a variant in which a confidence equal to the threshold does not execute
ExecutedAbove(s, mode) == mode = "auto" /\ s.confidence > AUTO_EXECUTE_CONFIDENCE

\* lines 36-47: the decision
Executed(s, mode) == mode = "auto" /\ s.confidence >= AUTO_EXECUTE_CONFIDENCE

\* lines 37-47: the reason
Reason(s, mode) ==
  IF mode = "auto"
  THEN IF s.confidence >= AUTO_EXECUTE_CONFIDENCE THEN NoReason ELSE ReasonBelow
  ELSE ReasonManual

\* lines 50-58: the record handed to add_action, t the reading of utcnow()
ActionRecord(s, mode, t) ==
  [suggestion_id |-> s.id, suggestion_title |-> s.title,
   action |-> IF Executed(s, mode) THEN "auto_execute" ELSE "suggested",
   details |-> Reason(s, mode), timestamp |-> t]

\* a variant that reports success whatever add_action did
ExecuteResultAlwaysOk(s, mode, t, ok) ==
  [status |-> "ok", executed |-> Executed(s, mode), reason |-> Reason(s, mode),
   record |-> ActionRecord(s, mode, t)]

\* lines 60-66: what the call returns, ok telling whether add_action returned
ExecuteResult(s, mode, t, ok) ==
  IF ok
  THEN [status |-> "ok", executed |-> Executed(s, mode), reason |-> Reason(s, mode),
        record |-> ActionRecord(s, mode, t)]
  ELSE [status |-> "error", reason |-> "persistence_failed", executed |-> Executed(s, mode)]

\* get_actions(u) of the audit log in use
ProviderGetActions(u) ==
  IF backend = "sqlite"
  THEN [i \in 1..Len(SqlGetActions(actions, u)) |-> Supplied(SqlGetActions(actions, u)[i])]
  ELSE MemGetActions(actionStore, u)

InitExec ==
  /\ store = [u \in Users |-> <<>>]
  /\ events = <<>>
  /\ actions = <<>>
  /\ actionSeq = 0
  /\ uuids = 0
  /\ now = 18 + Timedelta(RetentionDays)
  /\ evLeft = 0
  /\ actLeft = MaxActions
  /\ last = [op |-> "init"]
  /\ subs = NoSubs
  /\ first = NoSubs
  /\ backend \in {"memory", "sqlite"}
  /\ pc = [t \in Threads |-> "idle"]
  /\ call = [t \in Threads |-> [user |-> "u1", event |-> [event_id |-> NoneId, timestamp |-> 18]]]
  /\ actionStore = [u \in Users |-> <<>>]
  /\ weightsFile = NoFile
  /\ trained = NotTrained
  /\ lifespan = NotStarted

\* execute_action(u, s, mode); ok is FALSE when provider.add_action raises,
\* which rolls the INSERT back
ExecuteAction(u, s, mode, ok) ==
  /\ actLeft > 0
  /\ actLeft' = actLeft - 1
  /\ (backend = "memory") => ok
  /\ IF ~ok
     THEN UNCHANGED <<actions, actionSeq, actionStore>>
     ELSE IF backend = "sqlite"
          THEN /\ actions' = SqlAddAction(actions, actionSeq, u, ActionRecord(s, mode, now))
               /\ actionSeq' = actionSeq + 1
               /\ UNCHANGED actionStore
          ELSE /\ actionStore' = MemAddAction(actionStore, u, ActionRecord(s, mode, now))
               /\ UNCHANGED <<actions, actionSeq>>
  /\ last' = [op |-> "execute_action", user |-> u, suggestion |-> s, mode |-> mode,
              wrote |-> ok, result |-> ExecuteResult(s, mode, now, ok),
              before |-> [u2 \in Users |-> ProviderGetActions(u2)]]
  /\ UNCHANGED <<lifespan, weightsFile, trained, store, events, uuids, now, evLeft, subs, first, backend, pc, call>>

NextExec ==
  \/ \E u \in Users, s \in Suggestion, mode \in Modes, ok \in BOOLEAN :
       ExecuteAction(u, s, mode, ok)
  \/ \E u \in Users : GetActions(u)

SpecExec == InitExec /\ [][NextExec]_vars

\* the record that the latest execute_action added to its user's audit log,
\* as a set: empty when the log is what it was before the call
Recorded ==
  LET log == ProviderGetActions(last.user)
      was == last.before[last.user]
  IN  IF Len(log) = Len(was) + 1 /\ SubSeq(log, 1, Len(was)) = was
      THEN {log[Len(log)]} ELSE {}

\* executed is true exactly for mode "auto" with confidence at or above the threshold
GateDecision ==
  last.result.executed
    <=> (last.mode = "auto" /\ last.suggestion.confidence >= AUTO_EXECUTE_CONFIDENCE)

\* C13: execute_action returns executed = true exactly when mode is "auto"
\* and the confidence is at or above AUTO_EXECUTE_CONFIDENCE, and it adds
\* one record to the audit log: 'auto_execute' when executed is true,
\* 'suggested' with a non-empty reason otherwise.
C13_ExecutorGate ==
  last.op = "execute_action" =>
    /\ GateDecision
    /\ \E r \in Recorded :
         /\ r.suggestion_id = last.suggestion.id
         /\ r.action = IF last.result.executed THEN "auto_execute" ELSE "suggested"
         /\ ~last.result.executed => r.details \notin {NoReason, ""}

\* C13 as amended: the decision is as stated on every call; the record is
\* added as stated when add_action returns, and when add_action raises
\* nothing is recorded and the status is 'error'.
C13_ExecutorGateWhenWritten ==
  last.op = "execute_action" =>
    /\ GateDecision
    /\ IF last.wrote
       THEN \E r \in Recorded :
              /\ r.suggestion_id = last.suggestion.id
              /\ r.action = IF last.result.executed THEN "auto_execute" ELSE "suggested"
              /\ ~last.result.executed => r.details \notin {NoReason, ""}
              /\ last.result.status = "ok" /\ Supplied(last.result.record) = r
       ELSE Recorded = {} /\ last.result.status = "error"

\* mode "auto" with the confidence equal to the threshold, recorded as auto_execute
C13_Witness ==
  /\ last.op = "execute_action"
  /\ last.mode = "auto"
  /\ last.suggestion.confidence = AUTO_EXECUTE_CONFIDENCE
  /\ last.wrote
  /\ \E r \in Recorded : r.action = "auto_execute"

\* C14: when add_action raises inside execute_action, the call returns a
\* result whose status is 'error' and the audit log of every user, in both
\* logs, is what it was before the call.
C14_PersistenceFailure ==
  (last.op = "execute_action" /\ ~last.wrote) =>
    /\ last.result.status = "error"
    /\ \A u \in Users : ProviderGetActions(u) = last.before[u]

\* add_action raised on a log that already held a record
C14_Witness ==
  /\ last.op = "execute_action"
  /\ ~last.wrote
  /\ last.before[last.user] # <<>>
  /\ last.result.executed

----------------------------------------------------------------------------
(* core/learning.py: acceptance metrics and the weights file.  A float is  *)
(* the fraction it stands for, kept in lowest terms.                       *)

RECURSIVE Gcd(_, _)
Gcd(a, b) == IF b = 0 THEN a ELSE Gcd(b, a % b)

\* n / d for d > 0
Frac(n, d) == [num |-> n \div Gcd(n, d), den |-> d \div Gcd(n, d)]

\* accepts / total if total else 0.0
Rate(accepts, total) == IF total = 0 THEN Frac(0, 1) ELSE Frac(accepts, total)

SuggestionIds == {"sA", "sB"}
TitleOf(sid) == IF sid = "sA" THEN "A" ELSE "B"

\* the records POST /actions persists: a user's decision on a suggestion
Decision ==
  {[suggestion_id |-> sid, suggestion_title |-> t, action |-> act,
    details |-> NoReason, timestamp |-> ts] :
     sid \in SuggestionIds, t \in {"A", "B", NoTitle}, act \in {"accept", "reject"},
     ts \in {18}} \ {d \in [suggestion_id : SuggestionIds, suggestion_title : {"A", "B"},
                              action : {"accept", "reject"}, details : {NoReason},
                              timestamp : {18}] :
                        d.suggestion_title # TitleOf(d.suggestion_id)}

\* a variant aggregating by suggestion_id alone
AggregationKeyById(a) == a.suggestion_id

\* line 48: a.get('suggestion_title') or a.get('suggestion_id') or 'unknown'
AggregationKey(a) ==
  IF a.suggestion_title # NoTitle THEN a.suggestion_title
  ELSE IF a.suggestion_id # NoneId THEN a.suggestion_id
  ELSE "unknown"

\* lines 45-52: the loop that fills per
RECURSIVE Tally(_, _)
Tally(acts, per) ==
  IF acts = <<>> THEN per
  ELSE LET a == Head(acts)
           sid == AggregationKey(a)
           ent == IF sid \in DOMAIN per THEN per[sid] ELSE [count |-> 0, accepts |-> 0]
           new == [count |-> ent.count + 1,
                   accepts |-> ent.accepts + (IF a.action = "accept" THEN 1 ELSE 0)]
       IN  Tally(Tail(acts), [k \in DOMAIN per \cup {sid} |-> IF k = sid THEN new ELSE per[k]])

RECURSIVE Concat(_, _)
Concat(st, us) ==
  IF us = {} THEN <<>>
  ELSE LET u == CHOOSE v \in us : TRUE IN st[u] \o Concat(st, us \ {u})

\* lines 31-42: the records read, for a user or for all known users
ActionsRead(u) ==
  IF u # NoUser
  THEN (IF backend = "sqlite" THEN SqlGetActions(actions, u) ELSE MemGetActions(actionStore, u))
  ELSE (IF backend = "sqlite" THEN <<>> ELSE Concat(actionStore, Users))

\* compute_acceptance_metrics over the records read
ComputeAcceptanceMetrics(acts) ==
  LET total == Len(acts)
      accepts == Cardinality({i \in 1..Len(acts) : acts[i].action = "accept"})
      per == Tally(acts, <<>>)
  IN  [total |-> total, accepts |-> accepts, accept_rate |-> Rate(accepts, total),
       per_suggestion |-> [k \in DOMAIN per |->
                             [count |-> per[k].count, accepts |-> per[k].accepts,
                              rate |-> Rate(per[k].accepts, per[k].count)]]]

\* lines 77-80: the Weights object, t the reading of utcnow()
Weights(acts, t) ==
  LET metrics == ComputeAcceptanceMetrics(acts)
  IN  [trained_at |-> Isoformat(t), global_accept_rate |-> metrics.accept_rate,
       per_title |-> [k \in DOMAIN metrics.per_suggestion |-> metrics.per_suggestion[k].rate]]

\* json.dumps of a Weights object: per_title becomes the members of a JSON object
JsonDumps(w) ==
  [exists |-> TRUE, trained_at |-> w.trained_at,
   global_accept_rate |-> w.global_accept_rate,
   per_title |-> {<<k, w.per_title[k]>> : k \in DOMAIN w.per_title}]

\* json.loads of the file's text
JsonLoads(f) ==
  [trained_at |-> f.trained_at, global_accept_rate |-> f.global_accept_rate,
   per_title |-> [k \in {m[1] : m \in f.per_title} |->
                    (CHOOSE m \in f.per_title : m[1] = k)[2]]]

\* a variant that updates the per_title entries of the file in place
PersistWeightsMerged(f, w) ==
  IF ~f.exists THEN JsonDumps(w)
  ELSE [JsonDumps(w) EXCEPT
          !.per_title = @ \cup {m \in f.per_title : m[1] \notin DOMAIN w.per_title}]

\* persist_weights: write_text replaces the file's content
PersistWeights(f, w) == JsonDumps(w)

\* the file just opened by write_text: it exists and is empty
Truncated == [exists |-> TRUE, text |-> ""]

\* load_weights: {} when the file is missing or json.loads raises on its text
LoadWeights(f) == IF f.exists /\ f # Truncated THEN JsonLoads(f) ELSE <<>>

\* every record of user u that the ranker reads: ranker.py lines 28-43
RankerActions(u) ==
  (IF backend = "sqlite" THEN SqlGetActions(actions, u) ELSE <<>>)
    \o MemGetActions(actionStore, u)

\* a variant falling back on the user's overall accept rate
UserAcceptRateOverall(u, sid) ==
  LET acts == RankerActions(u)
      same == SelectSeq(acts, LAMBDA a : a.suggestion_id = sid)
      acc(l) == Cardinality({i \in 1..Len(l) : l[i].action = "accept"})
  IN  IF same # <<>> THEN Rate(acc(same), Len(same)) ELSE Rate(acc(acts), Len(acts))

\* _user_accept_rate_for_suggestion, ranker.py lines 45-55
UserAcceptRate(u, sid) ==
  LET acts == RankerActions(u)
      same == SelectSeq(acts, LAMBDA a : a.suggestion_id = sid)
      accepts == Cardinality({i \in 1..Len(same) : same[i].action = "accept"})
  IN  IF acts = <<>> THEN Frac(0, 1)
      ELSE IF same # <<>> THEN Frac(accepts, Len(same))
      ELSE Frac(0, 1)

InitLearn ==
  /\ store = [u \in Users |-> <<>>]
  /\ events = <<>>
  /\ actions = <<>>
  /\ actionSeq = 0
  /\ uuids = 0
  /\ now = 18 + Timedelta(RetentionDays)
  /\ evLeft = 0
  /\ actLeft = MaxActions
  /\ last = [op |-> "init"]
  /\ subs = NoSubs
  /\ first = NoSubs
  /\ backend \in {"memory", "sqlite"}
  /\ pc = [t \in Threads |-> "idle"]
  /\ call = [t \in Threads |-> [user |-> "u1", event |-> [event_id |-> NoneId, timestamp |-> 18]]]
  /\ actionStore = [u \in Users |-> <<>>]
  /\ weightsFile = NoFile
  /\ trained = NotTrained
  /\ lifespan = NotStarted

\* POST /actions: api/actions.py lines 14-27, the record going to the
\* store when it has add_action and to action_store otherwise
PostAction(u, d) ==
  /\ actLeft > 0
  /\ actLeft' = actLeft - 1
  /\ IF backend = "sqlite"
     THEN /\ actions' = SqlAddAction(actions, actionSeq, u, d)
          /\ actionSeq' = actionSeq + 1
          /\ UNCHANGED actionStore
     ELSE /\ actionStore' = MemAddAction(actionStore, u, d)
          /\ UNCHANGED <<actions, actionSeq>>
  /\ last' = [op |-> "post_action", user |-> u, action |-> d]
  /\ UNCHANGED <<lifespan, weightsFile, trained, store, events, uuids, now, evLeft, subs, first, backend, pc, call>>

\* train_and_persist(u)
Train(u) ==
  LET w == Weights(ActionsRead(u), now)
  IN  /\ weightsFile' = PersistWeights(weightsFile, w)
      /\ last' = [op |-> "train", user |-> u]
      /\ trained' = [ran |-> TRUE, ret |-> w, read |-> ActionsRead(u),
                     prevKeys |-> IF weightsFile.exists
                                  THEN {m[1] : m \in weightsFile.per_title} ELSE {}]
      /\ UNCHANGED <<lifespan, actionStore, store, events, actions, actionSeq, uuids, now, evLeft,
                     actLeft, subs, first, backend, pc, call>>

\* load_weights()
ReadWeights ==
  /\ last' = [op |-> "load_weights", ret |-> LoadWeights(weightsFile)]
  /\ UNCHANGED <<lifespan, actionStore, weightsFile, trained, store, events, actions, actionSeq, uuids,
                 now, evLeft, actLeft, subs, first, backend, pc, call>>

\* _user_accept_rate_for_suggestion(u, sid)
AcceptRate(u, sid) ==
  /\ last' = [op |-> "accept_rate", user |-> u, suggestion_id |-> sid,
              ret |-> UserAcceptRate(u, sid)]
  /\ UNCHANGED <<lifespan, actionStore, weightsFile, trained, store, events, actions, actionSeq, uuids,
                 now, evLeft, actLeft, subs, first, backend, pc, call>>

NextLearn ==
  \/ \E u \in Users, d \in Decision : PostAction(u, d)
  \/ \E u \in Users \cup {NoUser} : Train(u)
  \/ ReadWeights

SpecLearn == InitLearn /\ [][NextLearn]_vars

\* the float r is a / n, and 0 when n is 0
IsRatio(r, a, n) == IF n = 0 THEN r.num = 0 ELSE r.num * n = a * r.den

\* the title a record counts under: its suggestion_title, else its suggestion_id
TitleKey(r) == IF r.suggestion_title # NoTitle THEN r.suggestion_title ELSE r.suggestion_id

\* C15: train_and_persist(u) for a user u returns global_accept_rate =
\* accept records of u / records of u, and per_title holds exactly the
\* titles of u's records (suggestion_title, or suggestion_id without one),
\* each with accept records for it / records for it; with no record the
\* rate is 0 and per_title is empty.
C15_TrainingRates ==
  (last.op = "train" /\ last.user # NoUser) =>
    LET log == ProviderGetActions(last.user)
        w == trained.ret
        acc(S) == Cardinality({i \in S : log[i].action = "accept"})
    IN  /\ IsRatio(w.global_accept_rate, acc(1..Len(log)), Len(log))
        /\ DOMAIN w.per_title = {TitleKey(log[i]) : i \in 1..Len(log)}
        /\ \A t \in DOMAIN w.per_title :
             LET S == {i \in 1..Len(log) : TitleKey(log[i]) = t}
             IN  IsRatio(w.per_title[t], acc(S), Cardinality(S))
        /\ log = <<>> => w.global_accept_rate = Frac(0, 1) /\ w.per_title = <<>>

\* training over a titled and an untitled record, one of them an accept
C15_Witness ==
  /\ last.op = "train"
  /\ last.user # NoUser
  /\ LET log == ProviderGetActions(last.user)
     IN  /\ Len(log) = 2
         /\ \E i, j \in 1..2 : log[i].suggestion_title = NoTitle /\ log[j].suggestion_title # NoTitle
         /\ trained.ret.global_accept_rate = Frac(1, 2)
         /\ Cardinality(DOMAIN trained.ret.per_title) = 2

\* C16: once training has run, load_weights returns the Weights object the
\* latest run returned, and every per_title entry in it is the title of a
\* record that run read.
C16_WeightsOverwritten ==
  trained.ran =>
    /\ LoadWeights(weightsFile) = trained.ret
    /\ \A k \in DOMAIN LoadWeights(weightsFile).per_title :
         \E i \in 1..Len(trained.read) : TitleKey(trained.read[i]) = k

\* a second run whose history lacks a title that the file held before it
C16_Witness ==
  /\ trained.ran
  /\ \E k \in trained.prevKeys : k \notin DOMAIN LoadWeights(weightsFile).per_title
  /\ trained.read # <<>>

----------------------------------------------------------------------------
(* core/ranker.py: rank_suggestions.  An evidence item is the time its     *)
(* text parses to, or None when datetime.fromisoformat rejects it.         *)

\* ticks in a minute: secs / 60.0
Minute == 120

FrAdd(x, y) == Frac(x.num * y.den + y.num * x.den, x.den * y.den)
FrMul(x, y) == Frac(x.num * y.num, x.den * y.den)
FrLess(x, y) == x.num * y.den < y.num * x.den

\* SEVERITY_WEIGHT.get(severity, 1)
SeverityWeight(sev) ==
  CASE sev = "low" -> 1 [] sev = "medium" -> 2 [] sev = "high" -> 3 [] OTHER -> 1

\* lines 80-88: 1 / (1 + secs / 60) for the latest parseable evidence time
RecencyScore(evidence, t) ==
  LET times == {evidence[i].val : i \in {j \in 1..Len(evidence) : evidence[j].some}}
  IN  IF times = {} THEN Frac(0, 1)
      ELSE LET latest == CHOOSE x \in times : \A y \in times : y <= x
           IN  Frac(Minute, Minute + (t - latest))

\* line 90: min(1.0, ev_count / 5.0)
EvidenceScore(evidence) ==
  IF Len(evidence) >= 5 THEN Frac(1, 1) ELSE Frac(Len(evidence), 5)

\* lines 107-113: the factor the persisted weights apply to a title
Multiplier(w, title) ==
  LET global_accept == IF "global_accept_rate" \in DOMAIN w
                       THEN w.global_accept_rate ELSE Frac(0, 1)
      per_title_weights == IF "per_title" \in DOMAIN w THEN w.per_title ELSE <<>>
  IN  IF title # NoTitle /\ title \in DOMAIN per_title_weights
      THEN FrAdd(Frac(1, 1), FrMul(per_title_weights[title], Frac(1, 2)))
      ELSE FrAdd(Frac(1, 1), FrMul(global_accept, Frac(1, 5)))

\* a variant that leaves the user's accept rate out of the blend
FinalScoreNoHistory(s, u, t, w) ==
  LET sev == FrMul(Frac(SeverityWeight(s.severity), 1), Frac(3, 10))
      rec == FrMul(RecencyScore(s.evidence, t), Frac(2, 5))
      evi == FrMul(EvidenceScore(s.evidence), Frac(3, 20))
  IN  FrMul(FrAdd(FrAdd(sev, rec), evi), Multiplier(w, s.title))

\* lines 97-113: the final score of suggestion s for user u at time t
FinalScore(s, u, t, w) ==
  LET sev == FrMul(Frac(SeverityWeight(s.severity), 1), Frac(3, 10))
      rec == FrMul(RecencyScore(s.evidence, t), Frac(2, 5))
      evi == FrMul(EvidenceScore(s.evidence), Frac(3, 20))
      acc == FrMul(UserAcceptRate(u, s.id), Frac(3, 20))
  IN  FrMul(FrAdd(FrAdd(sev, rec), FrAdd(evi, acc)), Multiplier(w, s.title))

RECURSIVE InsertFirst(_, _)
InsertFirst(sorted, x) ==
  IF sorted = <<>> THEN <<x>>
  ELSE IF ~FrLess(x.score, Head(sorted).score) THEN <<x>> \o sorted
  ELSE <<Head(sorted)>> \o InsertFirst(Tail(sorted), x)

\* a variant sorting ascending and reversing, which reverses equal scores
RECURSIVE SortDescReversed(_)
SortDescReversed(seq) ==
  IF seq = <<>> THEN <<>>
  ELSE InsertFirst(SortDescReversed(SubSeq(seq, 1, Len(seq) - 1)), seq[Len(seq)])

RECURSIVE InsertDesc(_, _)
InsertDesc(sorted, x) ==
  IF sorted = <<>> THEN <<x>>
  ELSE IF FrLess(Head(sorted).score, x.score) THEN <<x>> \o sorted
  ELSE <<Head(sorted)>> \o InsertDesc(Tail(sorted), x)

\* line 118: list.sort(key=score, reverse=True), which keeps equal keys in order
RECURSIVE SortDesc(_)
SortDesc(seq) ==
  IF seq = <<>> THEN <<>>
  ELSE InsertDesc(SortDesc(SubSeq(seq, 1, Len(seq) - 1)), seq[Len(seq)])

\* rank_suggestions(input, u): each element keeps pos, its place in the input
RankSuggestions(input, u, t, w) ==
  SortDesc([i \in 1..Len(input) |->
              [pos |-> i, s |-> input[i], score |-> FinalScore(input[i], u, t, w)]])

\* the decisions recorded with the suggestion's title
TitledDecision == {d \in Decision : d.suggestion_title # NoTitle}

\* what the rule engine hands to the ranker: severity and evidence
Profiles == {<<"low", <<>>>>, <<"high", <<Some(18)>>>>}
RankedSuggestion ==
  {[id |-> sid, title |-> TitleOf(sid), severity |-> p[1], evidence |-> p[2]] :
     sid \in SuggestionIds, p \in Profiles}
RankInputs == {<<a, b>> : a \in RankedSuggestion, b \in RankedSuggestion}

InitRank ==
  /\ store = [u \in Users |-> <<>>]
  /\ events = <<>>
  /\ actions = <<>>
  /\ actionSeq = 0
  /\ uuids = 0
  /\ now = 18 + Minute    \* a minute after the evidence of Profiles
  /\ evLeft = 0
  /\ actLeft = MaxActions
  /\ last = [op |-> "init"]
  /\ subs = NoSubs
  /\ first = NoSubs
  /\ backend = "memory"
  /\ pc = [t \in Threads |-> "idle"]
  /\ call = [t \in Threads |-> [user |-> "u1", event |-> [event_id |-> NoneId, timestamp |-> 18]]]
  /\ actionStore = [u \in Users |-> <<>>]
  /\ weightsFile = NoFile
  /\ trained = NotTrained
  /\ lifespan = NotStarted

\* rank_suggestions(input, u)
Rank(input, u) ==
  /\ last' = [op |-> "rank", user |-> u, input |-> input,
              ret |-> RankSuggestions(input, u, now, LoadWeights(weightsFile))]
  /\ UNCHANGED <<lifespan, actionStore, weightsFile, trained, store, events, actions, actionSeq, uuids,
                 now, evLeft, actLeft, subs, first, backend, pc, call>>

NextRank ==
  \/ \E u \in Users, d \in TitledDecision : PostAction(u, d)
  \/ \E u \in Users : Train(u)
  \/ \E input \in RankInputs : Rank(input, "u1")

SpecRank == InitRank /\ [][NextRank]_vars

\* the accept rate alone, over the audit log
NextAccept ==
  \/ \E u \in Users, d \in Decision : PostAction(u, d)
  \/ \E u \in Users, sid \in SuggestionIds : AcceptRate(u, sid)

SpecAccept == InitLearn /\ [][NextAccept]_vars

\* C17: rank_suggestions returns every input suggestion exactly once, each
\* with its final score, in descending order of that score, and two
\* suggestions of equal score stand in the order they had in the input.
C17_RankIsStableSort ==
  last.op = "rank" =>
    LET inp == last.input
        ret == last.ret
        w == LoadWeights(weightsFile)
    IN  /\ Len(ret) = Len(inp)
        /\ {ret[i].pos : i \in 1..Len(ret)} = 1..Len(inp)
        /\ \A i \in 1..Len(ret) :
             /\ ret[i].s = inp[ret[i].pos]
             /\ ret[i].score = FinalScore(inp[ret[i].pos], last.user, now, w)
        /\ \A i, j \in 1..Len(ret) :
             i < j => /\ ~FrLess(ret[i].score, ret[j].score)
                      /\ (ret[i].score = ret[j].score => ret[i].pos < ret[j].pos)

\* two different suggestions with equal scores, ranked with history on file
C17_Witness ==
  /\ last.op = "rank"
  /\ Len(last.ret) = 2
  /\ last.ret[1].score = last.ret[2].score
  /\ last.ret[1].s # last.ret[2].s
  /\ weightsFile.exists
  /\ RankerActions(last.user) # <<>>

\* C18: the accept rate for user u and suggestion id s is the accept records
\* among u's records with suggestion_id s over the number of those records,
\* and 0 when u has none; nothing else enters it.
C18_AcceptRateScoped ==
  last.op = "accept_rate" =>
    LET log == ProviderGetActions(last.user)
        same == {i \in 1..Len(log) : log[i].suggestion_id = last.suggestion_id}
        accepts == {i \in same : log[i].action = "accept"}
    IN  /\ IsRatio(last.ret, Cardinality(accepts), Cardinality(same))
        /\ same = {} => last.ret = Frac(0, 1)

\* u accepted another suggestion, another user accepted this one, u has no
\* record for it
C18_Witness ==
  /\ last.op = "accept_rate"
  /\ LET log == ProviderGetActions(last.user)
     IN  /\ \E i \in 1..Len(log) : log[i].action = "accept"
         /\ \A i \in 1..Len(log) : log[i].suggestion_id # last.suggestion_id
  /\ \E v \in Users \ {last.user} :
       \E i \in 1..Len(ProviderGetActions(v)) :
         /\ ProviderGetActions(v)[i].suggestion_id = last.suggestion_id
         /\ ProviderGetActions(v)[i].action = "accept"
  /\ last.ret = Frac(0, 1)

\* in the latest rank call, input positions a and b hold suggestions of
\* different ids with the same severity and evidence, the user has an
\* accept record for b's id and no record for a's id
BiasCase(a, b) ==
  /\ last.input[a].id # last.input[b].id
  /\ last.input[a].severity = last.input[b].severity
  /\ last.input[a].evidence = last.input[b].evidence
  /\ \E i \in 1..Len(RankerActions(last.user)) :
       /\ RankerActions(last.user)[i].suggestion_id = last.input[b].id
       /\ RankerActions(last.user)[i].action = "accept"
  /\ \A i \in 1..Len(RankerActions(last.user)) :
       RankerActions(last.user)[i].suggestion_id # last.input[a].id

\* input position b is placed before input position a in the result
Ahead(b, a) ==
  \E i, j \in 1..Len(last.ret) : i < j /\ last.ret[i].pos = b /\ last.ret[j].pos = a

\* C19: of two suggestions with the same severity and evidence, the one the
\* user accepted before is ranked ahead of the one the user has no history
\* for, in either input order and whatever weights are on file.
C19_AcceptanceBias ==
  last.op = "rank" =>
    \A a, b \in 1..Len(last.input) : BiasCase(a, b) => Ahead(b, a)

\* C19 as amended: the same, when the factor the weights on file apply to the
\* accepted suggestion's title is not smaller than the factor they apply to
\* the other's.
C19_AcceptanceBiasEqualWeights ==
  last.op = "rank" =>
    \A a, b \in 1..Len(last.input) :
      (/\ BiasCase(a, b)
       /\ ~FrLess(Multiplier(LoadWeights(weightsFile), last.input[b].title),
                  Multiplier(LoadWeights(weightsFile), last.input[a].title)))
        => Ahead(b, a)

\* the accepted suggestion came second in the input and is ranked first,
\* with trained weights on file
C19_Witness ==
  /\ last.op = "rank"
  /\ BiasCase(1, 2)
  /\ Ahead(2, 1)
  /\ weightsFile.exists
  /\ weightsFile.per_title # {}

----------------------------------------------------------------------------
(* run_rules_and_score of core/rules.py.  A rule is what calling it does:  *)
(* it raises, or it returns a list of suggestions.                         *)

MaxRules == 3

SwitchingSuggestion ==
  [title |-> "High context switching", severity |-> "medium", confidence |-> 150]
SequenceSuggestion ==
  [title |-> "Repeated manual sequence", severity |-> "low", confidence |-> 90]

\* what a rule that returns hands back: no, one or two suggestions
Emissions ==
  {<<>>, <<SwitchingSuggestion>>, <<SequenceSuggestion>>,
   <<SwitchingSuggestion, SequenceSuggestion>>}

Rules == {[raises |-> TRUE, emits |-> <<>>]} \cup {[raises |-> FALSE, emits |-> e] : e \in Emissions}

RuleLists == UNION {[1..n -> Rules] : n \in 0..MaxRules}

\* line 169: max(0.0, min(1.0, float(confidence))), in hundredths
ClampConfidence(c) == IF c < 0 THEN 0 ELSE IF c > 100 THEN 100 ELSE c

\* lines 166-172: base * 0.6 + conf * 0.4
RuleScore(sg) ==
  FrAdd(FrMul(Frac(SeverityWeight(sg.severity), 1), Frac(3, 5)),
        FrMul(Frac(ClampConfidence(sg.confidence), 100), Frac(2, 5)))

\* lines 173-174: score every suggestion and sort by score, highest first
ScoreAndSort(suggestions) ==
  SortDesc([i \in 1..Len(suggestions) |->
              [title |-> suggestions[i].title, severity |-> suggestions[i].severity,
               confidence |-> suggestions[i].confidence,
               score |-> RuleScore(suggestions[i])]])

\* a variant without the try block: the first exception leaves the function
RECURSIVE RunRulesUnguarded(_, _)
RunRulesUnguarded(rules, suggestions) ==
  IF rules = <<>> THEN [raised |-> FALSE, ret |-> ScoreAndSort(suggestions)]
  ELSE IF Head(rules).raises THEN [raised |-> TRUE, ret |-> <<>>]
  ELSE RunRulesUnguarded(Tail(rules), suggestions \o Head(rules).emits)

\* lines 158-165: the loop over the rules, then the scoring
RECURSIVE RunRules(_, _)
RunRules(rules, suggestions) ==
  IF rules = <<>> THEN [raised |-> FALSE, ret |-> ScoreAndSort(suggestions)]
  ELSE IF Head(rules).raises THEN RunRules(Tail(rules), suggestions)
  ELSE RunRules(Tail(rules), suggestions \o Head(rules).emits)

InitRules ==
  /\ store = [u \in Users |-> <<>>]
  /\ events = <<>>
  /\ actions = <<>>
  /\ actionSeq = 0
  /\ uuids = 0
  /\ now = 18 + Timedelta(RetentionDays)
  /\ evLeft = 0
  /\ actLeft = 0
  /\ last = [op |-> "init"]
  /\ subs = NoSubs
  /\ first = NoSubs
  /\ backend = "memory"
  /\ pc = [t \in Threads |-> "idle"]
  /\ call = [t \in Threads |-> [user |-> "u1", event |-> [event_id |-> NoneId, timestamp |-> 18]]]
  /\ actionStore = [u \in Users |-> <<>>]
  /\ weightsFile = NoFile
  /\ trained = NotTrained
  /\ lifespan = NotStarted

\* run_rules_and_score(events, rules)
RunRulesAndScore(rules) ==
  /\ last' = [op |-> "run_rules", rules |-> rules, result |-> RunRules(rules, <<>>)]
  /\ UNCHANGED <<lifespan, actionStore, weightsFile, trained, store, events, actions, actionSeq, uuids,
                 now, evLeft, actLeft, subs, first, backend, pc, call>>

NextRules == \E rules \in RuleLists : RunRulesAndScore(rules)

SpecRules == InitRules /\ [][NextRules]_vars

\* the suggestions of the rules that returned, in rule order
RECURSIVE Emitted(_)
Emitted(rules) ==
  IF rules = <<>> THEN <<>>
  ELSE (IF Head(rules).raises THEN <<>> ELSE Head(rules).emits) \o Emitted(Tail(rules))

\* a returned suggestion without the score the call added
Unscored(sg) == [title |-> sg.title, severity |-> sg.severity, confidence |-> sg.confidence]

\* C20: whichever rules of the list raise, run_rules_and_score returns, and
\* what it returns holds the suggestions of the rules that did not raise,
\* each as often as it was emitted, and nothing else.
C20_RuleExceptionSkipped ==
  last.op = "run_rules" =>
    /\ ~last.result.raised
    /\ LET got == [i \in 1..Len(last.result.ret) |-> Unscored(last.result.ret[i])]
       IN  SameBag(got, Emitted(last.rules))

\* a rule that raises between two rules that emit
C20_Witness ==
  /\ last.op = "run_rules"
  /\ Len(last.rules) = 3
  /\ last.rules[1].emits # <<>>
  /\ last.rules[2].raises
  /\ last.rules[3].emits # <<>>
  /\ Len(last.result.ret) = Len(last.rules[1].emits) + Len(last.rules[3].emits)

\* C21: every suggestion run_rules_and_score returns has a confidence
\* between 0 and 1 (0 and 100 hundredths), whatever confidence the rule
\* emitted, and its score is severity weight * 0.6 + the clamped
\* confidence * 0.4.
C21_ConfidenceClamped ==
  last.op = "run_rules" =>
    \A i \in 1..Len(last.result.ret) :
      LET sg == last.result.ret[i]
          clamped == IF sg.confidence > 100 THEN 100
                     ELSE IF sg.confidence < 0 THEN 0 ELSE sg.confidence
      IN  /\ sg.confidence \in 0..100
          /\ sg.score.num * 500 = (SeverityWeight(sg.severity) * 300 + clamped * 2) * sg.score.den

----------------------------------------------------------------------------
(* The detectors of core/rules.py, each applied once to a list of events   *)
(* drawn at the start.  An event is its type and its timestamp.            *)

MaxRuleEvents == 4

WindowMinutes == 10

EventTypes == {"window_focus", "app_switch", "key_press"}
RuleEvent == [type : EventTypes, timestamp : {17, 18}]
RuleEventLists == UNION {[1..n -> RuleEvent] : n \in 0..MaxRuleEvents}

RECURSIVE InsertByTimestamp(_, _)
InsertByTimestamp(sorted, e) ==
  IF sorted = <<>> THEN <<e>>
  ELSE IF e.timestamp < Head(sorted).timestamp THEN <<e>> \o sorted
  ELSE <<Head(sorted)>> \o InsertByTimestamp(Tail(sorted), e)

\* _ensure_sorted_events: evs.sort(key=timestamp), equal timestamps in order
RECURSIVE EnsureSortedEvents(_)
EnsureSortedEvents(evs) ==
  IF evs = <<>> THEN <<>>
  ELSE InsertByTimestamp(EnsureSortedEvents(SubSeq(evs, 1, Len(evs) - 1)), evs[Len(evs)])

\* list(reversed(l))
Reversed(l) == [i \in 1..Len(l) |-> l[Len(l) + 1 - i]]

\* _take_evidence: events[:max_items]
TakeEvidence(l) == SubSeq(l, 1, IF Len(l) < 5 THEN Len(l) ELSE 5)

\* min(cap, n / d) for d > 0
MinFrac(cap, n, d) == IF FrLess(cap, Frac(n, d)) THEN cap ELSE Frac(n, d)

\* line 55: the focus and switch events at or after now - window_minutes
Switches(evs, t, window_minutes) ==
  SelectSeq(EnsureSortedEvents(evs),
            LAMBDA e : /\ e.type \in {"window_focus", "app_switch"}
                       /\ e.timestamp >= t - window_minutes * Minute)

\* high_context_switch_rule(evs, window_minutes, threshold) at clock reading t
HighContextSwitchRule(evs, t, window_minutes, threshold) ==
  LET switches == Switches(evs, t, window_minutes)
      count == Len(switches)
  IN  IF count > threshold
      THEN <<[title |-> "High context switching",
              severity |-> IF count < threshold * 2 THEN "medium" ELSE "high",
              confidence |-> IF 3 * threshold < 2 THEN MinFrac(Frac(99, 100), count, 1)
                             ELSE MinFrac(Frac(99, 100), 2 * count, 3 * threshold),
              evidence |-> TakeEvidence(Reversed(switches))]>>
      ELSE <<>>

\* lines 120-128: the types, and the window positions holding the L-gram of position i
Types(evs) == [i \in 1..Len(evs) |-> EnsureSortedEvents(evs)[i].type]
Positions(types, seq_len, i) ==
  {j \in 1..(Len(types) - seq_len + 1) :
     SubSeq(types, j, j + seq_len - 1) = SubSeq(types, i, i + seq_len - 1)}

\* lines 123-148: every window position counted, the first repeated L-gram reported
ReportFirstRepeat(evs, min_repeat, seq_len) ==
  LET types == Types(evs)
      hits == {i \in 1..(Len(types) - seq_len + 1) :
                 Cardinality(Positions(types, seq_len, i)) >= min_repeat}
  IN  IF hits = {} THEN <<>>
      ELSE LET i == CHOOSE x \in hits : \A y \in hits : x <= y
           IN  <<[title |-> "Repeated manual sequence", severity |-> "low",
                  seq |-> SubSeq(types, i, i + seq_len - 1),
                  confidence |-> MinFrac(Frac(9, 10),
                                         Cardinality(Positions(types, seq_len, i)), min_repeat)]>>

\* repeated_sequence_rule(evs, min_repeat, seq_len)
RepeatedSequenceRule(evs, min_repeat, seq_len) ==
  IF Len(Types(evs)) < seq_len * min_repeat THEN <<>>
  ELSE ReportFirstRepeat(evs, min_repeat, seq_len)

InitDetect ==
  /\ store = [u \in Users |-> <<>>]
  /\ events = <<>>
  /\ actions = <<>>
  /\ actionSeq = 0
  /\ uuids = 0
  /\ now = 18 + WindowMinutes * Minute    \* timestamp 18 is the window's first instant
  /\ evLeft = 0
  /\ actLeft = 0
  /\ last \in {[op |-> "events", events |-> evs] : evs \in RuleEventLists}
  /\ subs = NoSubs
  /\ first = NoSubs
  /\ backend = "memory"
  /\ pc = [t \in Threads |-> "idle"]
  /\ call = [t \in Threads |-> [user |-> "u1", event |-> [event_id |-> NoneId, timestamp |-> 18]]]
  /\ actionStore = [u \in Users |-> <<>>]
  /\ weightsFile = NoFile
  /\ trained = NotTrained
  /\ lifespan = NotStarted

\* high_context_switch_rule(events, WindowMinutes, threshold)
HighContextSwitch(threshold) ==
  /\ last.op = "events"
  /\ last' = [op |-> "high_context_switch", events |-> last.events, threshold |-> threshold,
              ret |-> HighContextSwitchRule(last.events, now, WindowMinutes, threshold)]
  /\ UNCHANGED <<lifespan, actionStore, weightsFile, trained, store, events, actions, actionSeq, uuids,
                 now, evLeft, actLeft, subs, first, backend, pc, call>>

\* repeated_sequence_rule(events, min_repeat, seq_len)
RepeatedSequence(min_repeat, seq_len) ==
  /\ last.op = "events"
  /\ last' = [op |-> "repeated_sequence", events |-> last.events,
              min_repeat |-> min_repeat, seq_len |-> seq_len,
              ret |-> RepeatedSequenceRule(last.events, min_repeat, seq_len)]
  /\ UNCHANGED <<lifespan, actionStore, weightsFile, trained, store, events, actions, actionSeq, uuids,
                 now, evLeft, actLeft, subs, first, backend, pc, call>>

NextDetect ==
  \/ \E threshold \in {1, 2} : HighContextSwitch(threshold)
  \/ \E min_repeat \in {2}, seq_len \in {1, 2} : RepeatedSequence(min_repeat, seq_len)

SpecDetect == InitDetect /\ [][NextDetect]_vars

InWindowSwitches ==
  Cardinality({i \in 1..Len(last.events) :
                 /\ last.events[i].type \in {"window_focus", "app_switch"}
                 /\ last.events[i].timestamp >= now - WindowMinutes * Minute})

\* C22: high_context_switch_rule emits a suggestion exactly when the number
\* of focus and switch events inside the window exceeds the threshold; the
\* suggestion's severity is high exactly when that number exceeds twice the
\* threshold, and medium for every other number above the threshold.
C22_SwitchSeverity ==
  last.op = "high_context_switch" =>
    /\ (last.ret # <<>>) <=> (InWindowSwitches > last.threshold)
    /\ last.ret # <<>> =>
         /\ Len(last.ret) = 1
         /\ last.ret[1].severity = (IF InWindowSwitches > 2 * last.threshold
                                    THEN "high" ELSE "medium")

\* the number of window positions of the time-ordered type sequence that hold g
Occurrences(g) ==
  LET types == Types(last.events)
  IN  Cardinality({j \in 1..(Len(types) - Len(g) + 1) : SubSeq(types, j, j + Len(g) - 1) = g})

\* C23: repeated_sequence_rule emits a suggestion exactly when some run of
\* seq_len consecutive types occurs at least min_repeat times in the
\* time-ordered type sequence, every window position counted, whatever the
\* length of the sequence.
C23_RepeatedSequence ==
  last.op = "repeated_sequence" =>
    ((last.ret # <<>>) <=>
       \E g \in [1..last.seq_len -> EventTypes] : Occurrences(g) >= last.min_repeat)

----------------------------------------------------------------------------
(* main.lifespan and its prune worker.  Both run on one asyncio event      *)
(* loop, so a coroutine runs from one await to the next without the other  *)
(* interleaving: the worker's loop test, its prune() call and its entry    *)
(* into wait_for are one step.  The worker was put on the loop's ready     *)
(* queue by create_task before the application starts serving, so its      *)
(* first step runs before the shutdown is handled.  The timer of wait_for  *)
(* counts IntervalSteps down; the clock reading prune() takes stays now.   *)

IntervalSteps == 2
MaxPrunes == 2

\* line 71 back to line 42: after a prune() that returned or raised, the worker sleeps
AfterPruneUncaught(raised) == IF raised THEN "done" ELSE "sleeping"
AfterPrune(raised) == "sleeping"

\* lines 48-49 and 53: wait_for ends early when stop_event is set or the task is cancelled
WakesAtTimeoutOnly(l) == (l.stop_event \/ l.cancel) /\ l.remaining = 0
Wakes(l) == l.stop_event \/ l.cancel

Started ==
  [task |-> "created", stop_event |-> FALSE, cancel |-> FALSE, phase |-> "serving",
   remaining |-> 0, prunes |-> 0, pruned |-> "none", raised |-> FALSE]

InitWorker ==
  /\ store = [u \in Users |-> <<>>]
  /\ events = <<>>
  /\ actions = <<>>
  /\ actionSeq = 0
  /\ uuids = 0
  /\ now = 18 + Timedelta(RetentionDays)
  /\ evLeft = MaxEvents
  /\ actLeft = 0
  /\ last = [op |-> "init"]
  /\ subs = NoSubs
  /\ first = NoSubs
  /\ backend = "both"
  /\ pc = [t \in Threads |-> "idle"]
  /\ call = [t \in Threads |-> [user |-> "u1", event |-> [event_id |-> NoneId, timestamp |-> 18]]]
  /\ actionStore = [u \in Users |-> <<>>]
  /\ weightsFile = NoFile
  /\ trained = NotTrained
  /\ lifespan = Started

\* lines 38-49: the loop test passes, prune() returns or raises, wait_for begins
WorkerPrune(raises) ==
  LET cutoff == now - Timedelta(RetentionDays)
  IN  /\ \/ lifespan.task = "created"
         \/ (lifespan.task = "sleeping" /\ lifespan.remaining = 0 /\ ~Wakes(lifespan))
      /\ ~lifespan.stop_event
      /\ IF raises
         THEN UNCHANGED <<store, events, actions>>
         ELSE /\ store' = MemPrune(store, cutoff)
              /\ events' = SqlPruneEvents(events, Isoformat(cutoff))
              /\ actions' = SqlPruneActions(actions, Isoformat(cutoff))
      /\ lifespan' = [lifespan EXCEPT !.task = AfterPrune(raises),
                                      !.remaining = IntervalSteps,
                                      !.prunes = IF @ < MaxPrunes THEN @ + 1 ELSE @,
                                      !.pruned = IF raises THEN "raised" ELSE "ok",
                                      !.raised = @ \/ raises]
      /\ UNCHANGED <<actionStore, weightsFile, trained, actionSeq, uuids, now, evLeft, actLeft,
                     last, subs, first, backend, pc, call>>

\* the timer of wait_for(stop_event.wait(), timeout=interval) runs down
TimerTick ==
  /\ lifespan.task = "sleeping"
  /\ lifespan.remaining > 0
  /\ lifespan' = [lifespan EXCEPT !.remaining = @ - 1]
  /\ UNCHANGED <<actionStore, weightsFile, trained, store, events, actions, actionSeq, uuids,
                 now, evLeft, actLeft, last, subs, first, backend, pc, call>>

\* lines 38 and 53-56: the worker wakes to a set stop_event or a cancellation and returns
WorkerExit ==
  /\ lifespan.task = "sleeping"
  /\ Wakes(lifespan)
  /\ lifespan' = [lifespan EXCEPT !.task = "done"]
  /\ UNCHANGED <<actionStore, weightsFile, trained, store, events, actions, actionSeq, uuids,
                 now, evLeft, actLeft, last, subs, first, backend, pc, call>>

\* lines 63-66: stop_event.set(); prune_task.cancel(); then await prune_task
Shutdown ==
  /\ lifespan.phase = "serving"
  /\ lifespan.task # "created"
  /\ lifespan' = [lifespan EXCEPT !.stop_event = TRUE, !.cancel = TRUE, !.phase = "stopping"]
  /\ UNCHANGED <<actionStore, weightsFile, trained, store, events, actions, actionSeq, uuids,
                 now, evLeft, actLeft, last, subs, first, backend, pc, call>>

\* lines 66-71: await prune_task returns once the task is done
AwaitPruneTask ==
  /\ lifespan.phase = "stopping"
  /\ lifespan.task = "done"
  /\ lifespan' = [lifespan EXCEPT !.phase = "stopped"]
  /\ UNCHANGED <<actionStore, weightsFile, trained, store, events, actions, actionSeq, uuids,
                 now, evLeft, actLeft, last, subs, first, backend, pc, call>>

\* a request served while the application runs
Ingest(u, e) ==
  /\ lifespan.phase = "serving"
  /\ AddEvent(u, e)

NextWorker ==
  \/ \E raises \in BOOLEAN : WorkerPrune(raises)
  \/ TimerTick
  \/ WorkerExit
  \/ Shutdown
  \/ AwaitPruneTask
  \/ \E u \in Users, e \in Event : Ingest(u, e)

SpecWorker == InitWorker /\ [][NextWorker]_vars

\* the event loop runs every coroutine that is ready; time need not pass
LoopFairness ==
  /\ WF_vars(\E raises \in BOOLEAN : WorkerPrune(raises))
  /\ WF_vars(WorkerExit)
  /\ WF_vars(AwaitPruneTask)

SpecWorkerLoop == SpecWorker /\ LoopFairness

\* the event loop runs every coroutine that is ready, and time passes
SpecWorkerTimed == SpecWorker /\ LoopFairness /\ WF_vars(TimerTick)

\* C24: the prune worker never blocks shutdown.  Once stop_event is set the
\* worker starts no new prune (the timer is not re-armed and the stores stay
\* as they are), and from every state with stop_event set the worker task
\* finishes and the shutdown's await on it returns, even if no more time
\* passes on the timer.
C24_WorkerNeverBlocksShutdown ==
  /\ [][lifespan.stop_event =>
          /\ lifespan'.remaining <= lifespan.remaining
          /\ UNCHANGED <<store, events, actions>>]_vars
  /\ lifespan.stop_event ~> (lifespan.task = "done" /\ lifespan.phase = "stopped")

\* the shutdown completed while the timer still had time left
C24_Witness ==
  /\ lifespan.phase = "stopped"
  /\ lifespan.task = "done"
  /\ lifespan.remaining > 0
  /\ lifespan.prunes > 0

\* C30: unless shutdown is signalled, the worker calls prune() again and
\* again, infinitely often; a prune() that raised leaves the worker asleep
\* on its timer, not ended.
C30_PruningKeepsGoing ==
  /\ ([]<><<\E raises \in BOOLEAN : WorkerPrune(raises)>>_vars) \/ <>lifespan.stop_event
  /\ [](lifespan.pruned = "raised" /\ ~lifespan.stop_event => lifespan.task = "sleeping")

\* a prune() raised, and a later prune() ran and returned
C30_Witness ==
  /\ lifespan.raised
  /\ lifespan.pruned = "ok"
  /\ lifespan.prunes >= 2
  /\ ~lifespan.stop_event

----------------------------------------------------------------------------
(* core/normalizer.py.  A meta dict is a function from its keys to text;  *)
(* the texts used are shorter than MAX_TITLE_LEN, so no truncation cuts.   *)

PII_KEYS == {"email", "user_email", "username", "name", "full_name"}
MetaKeys == PII_KEYS \cup {"window_title"}
MetaValues == {"", "alice"}
Metas == UNION {[K -> MetaValues] : K \in SUBSET MetaKeys}
NoSalt == "None"
Salts == {NoSalt, "testsalt"}

\* the raw timestamp: an ISO string, a datetime, or absent
RawTimestamps ==
  {[kind |-> "str", text |-> Isoformat(18), dt |-> 0],
   [kind |-> "datetime", text |-> <<>>, dt |-> 18],
   [kind |-> "none", text |-> <<>>, dt |-> 0]}

RawEvent == [user_id : {"u1"}, event_id : {"e1"}, timestamp : RawTimestamps,
             type : {"test"}, meta : Metas]

\* _hash_text(text, key): an HMAC when a key is given, else a plain digest
HashText(text, key) ==
  IF key # NoSalt THEN "hmac(" \o key \o "," \o text \o ")"
  ELSE "sha256(" \o text \o ")"

\* Python truth of a str
Truthy(text) == text # ""

\* lines 55-63: the PII keys the loop hashes and removes
Hashed(meta) == {k \in PII_KEYS \cap DOMAIN meta : Truthy(meta[k])}

\* lines 51-78: the meta normalize_event builds from a copy of raw's meta
NormalizeMeta(meta, salt) ==
  LET hashed == Hashed(meta)
      title == "window_title" \in DOMAIN meta /\ Truthy(meta["window_title"])
      gone == hashed \cup (IF title THEN {"window_title"} ELSE {})
      kept == DOMAIN meta \ gone
  IN  [k \in kept \cup {g \o "_hash" : g \in gone} |->
         IF k \in kept THEN meta[k]
         ELSE LET g == CHOOSE x \in gone : k = x \o "_hash"
              IN  IF g = "window_title" THEN HashText(meta[g], NoSalt)
                  ELSE HashText(meta[g], salt)]

\* normalize_event(raw) with SILENT_KILLER_PII_SALT = salt at clock reading t
NormalizeEvent(raw, salt, t) ==
  [user_id |-> raw.user_id,
   event_id |-> raw.event_id,
   timestamp |-> IF raw.timestamp.kind = "str" THEN FromIsoformat(raw.timestamp.text)
                 ELSE IF raw.timestamp.kind = "datetime" THEN raw.timestamp.dt
                 ELSE t,
   type |-> raw.type,
   meta |-> NormalizeMeta(raw.meta, salt)]

InitNormalize ==
  /\ store = [u \in Users |-> <<>>]
  /\ events = <<>>
  /\ actions = <<>>
  /\ actionSeq = 0
  /\ uuids = 0
  /\ now = 19
  /\ evLeft = 0
  /\ actLeft = 0
  /\ last \in {[op |-> "raw", raw |-> r] : r \in RawEvent}
  /\ subs = NoSubs
  /\ first = NoSubs
  /\ backend = "memory"
  /\ pc = [t \in Threads |-> "idle"]
  /\ call = [t \in Threads |-> [user |-> "u1", event |-> [event_id |-> NoneId, timestamp |-> 18]]]
  /\ actionStore = [u \in Users |-> <<>>]
  /\ weightsFile = NoFile
  /\ trained = NotTrained
  /\ lifespan = NotStarted

\* normalize_event(raw); raw is only read, its meta copied with dict()
Normalize(salt) ==
  /\ last.op = "raw"
  /\ last' = [op |-> "normalize_event", raw |-> last.raw, passed |-> last.raw, salt |-> salt,
              ev |-> NormalizeEvent(last.raw, salt, now)]
  /\ UNCHANGED <<lifespan, actionStore, weightsFile, trained, store, events, actions, actionSeq,
                 uuids, now, evLeft, actLeft, subs, first, backend, pc, call>>

NextNormalize == \E salt \in Salts : Normalize(salt)

SpecNormalize == InitNormalize /\ [][NextNormalize]_vars

\* C25: for every PII key present in the raw event's meta, with any value,
\* the normalized meta does not contain the key and contains key_hash; the
\* raw event passed in is as it was before the call.
C25_PiiRemoved ==
  last.op = "normalize_event" =>
    /\ \A k \in PII_KEYS :
         k \in DOMAIN last.passed.meta =>
           /\ k \notin DOMAIN last.ev.meta
           /\ (k \o "_hash") \in DOMAIN last.ev.meta
    /\ last.raw = last.passed

----------------------------------------------------------------------------
(* Writers only: add_event and add_action of both users, on every store.   *)

InitFrame ==
  /\ store = [u \in Users |-> <<>>]
  /\ events = <<>>
  /\ actions = <<>>
  /\ actionSeq = 0
  /\ uuids = 0
  /\ now = 18 + Timedelta(RetentionDays)
  /\ evLeft = MaxEvents
  /\ actLeft = MaxActions
  /\ last = [op |-> "init"]
  /\ subs = NoSubs
  /\ first = NoSubs
  /\ backend = "both"
  /\ pc = [t \in Threads |-> "idle"]
  /\ call = [t \in Threads |-> [user |-> "u1", event |-> [event_id |-> NoneId, timestamp |-> 18]]]
  /\ actionStore = [u \in Users |-> <<>>]
  /\ weightsFile = NoFile
  /\ trained = NotTrained
  /\ lifespan = NotStarted

\* the payloads: every event_id, two timestamps; one action
FrameEvents == {e \in Event : e.timestamp \in {18, 19}}
FrameActions == {a \in Action : a.timestamp = 18}

NextFrame ==
  \/ \E u \in Users, e \in FrameEvents : AddEvent(u, e)
  \/ \E u \in Users, a \in FrameActions : AddAction(u, a)

SpecFrame == InitFrame /\ [][NextFrame]_vars

\* everything get_events(v, since) and get_actions(v) can return, on each store
Reads(v) ==
  [events |-> [since \in Sinces |-> [mem |-> MemGetEvents(store, v, since),
                                     sql |-> SqlGetEvents(events, v, since)]],
   actions |-> [mem |-> MemGetActions(actionStore, v), sql |-> SqlGetActions(actions, v)]]

\* C26: add_event(u, ...) and add_action(u, ...), with any payload, leave
\* what get_events(v) and get_actions(v) return unchanged for every other
\* user v.
C26_PerUserPartition ==
  [][\A v \in Users :
       (last'.op \in {"add_event", "add_action"} /\ last'.user # v) => Reads(v)' = Reads(v)]_vars

\* u1 has just added an event whose event_id the other user already stored,
\* and the other user has events and actions
C26_Witness ==
  /\ last.op = "add_event"
  /\ last.user = "u1"
  /\ \E i \in 1..Len(store["u2"]) : store["u2"][i].event_id = last.event.event_id
  /\ SqlGetActions(actions, "u2") # <<>>
  /\ MemGetActions(actionStore, "u2") # <<>>

\* C27: whenever execute_action returns a result with executed = true, the
\* call has appended an 'auto_execute' record for that suggestion to the
\* user's audit log, also when the write to the audit log fails.
C27_ExecutionAudited ==
  (last.op = "execute_action" /\ last.result.executed) =>
    \E r \in Recorded : r.suggestion_id = last.suggestion.id /\ r.action = "auto_execute"

----------------------------------------------------------------------------
(* api/ingest.py: POST /ingest with one event or a list of events.          *)
(* normalize_event hands event_id and a datetime timestamp on as they are. *)

MaxBatch == 2

Payloads == UNION {[1..n -> [user_id : Users, event : Event]] : n \in 1..MaxBatch}

\* lines 21-26: the loop over the payload, counting every add_event call
RECURSIVE IngestLoop(_, _)
IngestLoop(st, payload) ==
  IF payload = <<>> THEN st
  ELSE LET u == Head(payload).user_id
           e == Head(payload).event
       IN  IngestLoop([store |-> MemAddEvent(st.store, u, MemEnsureId(e, st.uuids)),
                       events |-> SqlAddEvent(st.events, u, e),
                       uuids |-> IF e.event_id = NoneId THEN st.uuids + 1 ELSE st.uuids,
                       subs |-> [st.subs EXCEPT ![u][e.event_id] = @ + 1],
                       first |-> IF st.subs[u][e.event_id] = 0
                                 THEN [st.first EXCEPT ![u][e.event_id] = e.timestamp]
                                 ELSE st.first,
                       stored |-> st.stored + 1],
                      Tail(payload))

InitIngestApi ==
  /\ store = [u \in Users |-> <<>>]
  /\ events = <<>>
  /\ actions = <<>>
  /\ actionSeq = 0
  /\ uuids = 0
  /\ now = 18 + Timedelta(RetentionDays)
  /\ evLeft = MaxEvents
  /\ actLeft = 0
  /\ last = [op |-> "init"]
  /\ subs = NoSubs
  /\ first = NoSubs
  /\ backend = "both"
  /\ pc = [t \in Threads |-> "idle"]
  /\ call = [t \in Threads |-> [user |-> "u1", event |-> [event_id |-> NoneId, timestamp |-> 18]]]
  /\ actionStore = [u \in Users |-> <<>>]
  /\ weightsFile = NoFile
  /\ trained = NotTrained
  /\ lifespan = NotStarted

\* ingest_event(payload)
IngestEvent(payload) ==
  LET st == IngestLoop([store |-> store, events |-> events, uuids |-> uuids, subs |-> subs,
                        first |-> first, stored |-> 0], payload)
  IN  /\ evLeft >= Len(payload)
      /\ evLeft' = evLeft - Len(payload)
      /\ store' = st.store
      /\ events' = st.events
      /\ uuids' = st.uuids
      /\ subs' = st.subs
      /\ first' = st.first
      /\ last' = [op |-> "ingest", payload |-> payload,
                  result |-> [status |-> "accepted", stored |-> st.stored],
                  before |-> [store |-> store, events |-> events]]
      /\ UNCHANGED <<lifespan, actionStore, weightsFile, trained, actions, actionSeq, now,
                     actLeft, backend, pc, call>>

NextIngestApi == \E payload \in Payloads : IngestEvent(payload)

SpecIngestApi == InitIngestApi /\ [][NextIngestApi]_vars

RECURSIVE TotalLen(_, _)
TotalLen(f, S) ==
  IF S = {} THEN 0
  ELSE LET u == CHOOSE x \in S : TRUE IN Len(f[u]) + TotalLen(f, S \ {u})

\* C28: the stored count of the ingestion response is the number of events
\* the request newly added, on the in-memory store and on the SQLite store:
\* an event whose (user_id, event_id) was already stored, or that repeats
\* an earlier event of the request, is not counted.
C28_StoredCount ==
  last.op = "ingest" =>
    /\ last.result.stored = TotalLen(store, Users) - TotalLen(last.before.store, Users)
    /\ last.result.stored = Len(events) - Len(last.before.events)

----------------------------------------------------------------------------
(* A training run beside the ranking requests.  train_and_persist has no   *)
(* caller inside the server, so it runs in a process of its own, and the   *)
(* two meet at the weights file.  write_text opens the file for writing,   *)
(* which empties it, and then writes the text: two steps of the trainer.   *)

NotWriting == [ran |-> FALSE, writing |-> FALSE]

InitRace ==
  /\ store = [u \in Users |-> <<>>]
  /\ events = <<>>
  /\ actions = <<>>
  /\ actionSeq = 0
  /\ uuids = 0
  /\ now = 18 + Minute
  /\ evLeft = 0
  /\ actLeft = MaxActions
  /\ last = [op |-> "init"]
  /\ subs = NoSubs
  /\ first = NoSubs
  /\ backend = "memory"
  /\ pc = [t \in Threads |-> "idle"]
  /\ call = [t \in Threads |-> [user |-> "u1", event |-> [event_id |-> NoneId, timestamp |-> 18]]]
  /\ actionStore = [u \in Users |-> <<>>]
  /\ weightsFile = NoFile
  /\ trained = NotWriting
  /\ lifespan = NotStarted

\* train_and_persist(u) up to the open() inside write_text
TrainOpen(u) ==
  /\ ~trained.writing
  /\ trained' = [ran |-> FALSE, writing |-> TRUE, user |-> u,
                 ret |-> Weights(ActionsRead(u), now), prior |-> LoadWeights(weightsFile)]
  /\ weightsFile' = Truncated
  /\ UNCHANGED <<lifespan, actionStore, store, events, actions, actionSeq, uuids, now, evLeft,
                 actLeft, last, subs, first, backend, pc, call>>

\* the write and close of write_text, and train_and_persist returns
TrainWrite ==
  /\ trained.writing
  /\ weightsFile' = PersistWeights(weightsFile, trained.ret)
  /\ trained' = NotWriting
  /\ last' = [op |-> "train", user |-> trained.user]
  /\ UNCHANGED <<lifespan, actionStore, store, events, actions, actionSeq, uuids, now, evLeft,
                 actLeft, subs, first, backend, pc, call>>

\* rank_suggestions(input, u), at any moment of the training run
RankRequest(input, u) ==
  LET w == LoadWeights(weightsFile)
  IN  /\ last' = [op |-> "rank", user |-> u, input |-> input, weights |-> w,
                  during |-> trained.writing,
                  prior |-> IF trained.writing THEN trained.prior ELSE w,
                  next |-> IF trained.writing THEN trained.ret ELSE w,
                  ret |-> RankSuggestions(input, u, now, w)]
      /\ UNCHANGED <<lifespan, actionStore, weightsFile, trained, store, events, actions,
                     actionSeq, uuids, now, evLeft, actLeft, subs, first, backend, pc, call>>

NextRace ==
  \/ \E d \in TitledDecision : PostAction("u1", d)
  \/ TrainOpen("u1")
  \/ TrainWrite
  \/ \E input \in RankInputs : RankRequest(input, "u1")

SpecRace == InitRace /\ [][NextRace]_vars

\* C29: a ranking request that runs during a training run uses the weights
\* persisted before the run or the weights the run persists, never a third
\* value.
C29_NoTornWeights ==
  (last.op = "rank" /\ last.during) => (last.weights = last.prior \/ last.weights = last.next)
====
